---- MODULE Spec2Model ----
(***************************************************************************)
(* Model of the postfixadmin -> Modoboa migration command                  *)
(* (modoboa/tools/pfxadmin_migrate/management/commands/                    *)
(*  migrate_from_postfixadmin.py).                                         *)
(*                                                                         *)
(* A character string is a sequence of tokens (a token stands for one or   *)
(* more characters that are never split: "a", "d1", "@", ",", "{", ...).   *)
(* The legacy (postfixadmin) store pf is read-only; the destination store  *)
(* db is a record of tables, each table a sequence of rows whose index is  *)
(* the row's primary key.                                                  *)
(*                                                                         *)
(* Legacy stores are well formed as postfixadmin keeps them: domain names, *)
(* alias_domain names, mailbox usernames and admin usernames are primary   *)
(* keys, a mailbox's username is local_part@domain, and a domain_admins    *)
(* row scoped to "ALL" excludes any other row of the same admin.           *)
(***************************************************************************)
EXTENDS Integers, Sequences, FiniteSets, TLC

VARIABLES
    options,      \* the command-line options dictionary
    pf,           \* the legacy store (options["_from"]), read-only
    db,           \* the destination store (options["_to"])
    ref,          \* destination store of the reference schedule: the same
                  \* steps, the administrator migrator deferred to the end
    pc,           \* position of the command: "handle", "loop", "done", "exit"
    pf_i,         \* index of the next row of pf_domains in _do_migration
    newdom,       \* primary key of the target Domain being filled (0: none)
    todo,         \* legacy rows still to process for the current domain
    exit_status   \* status of the process once it ended (-1: running)

vars == <<options, pf, db, ref, pc, pf_i, newdom, todo, exit_status>>

(***************************************************************************)
(* Bounds of the model.                                                    *)
(***************************************************************************)
MaxPfDomains == 3   \* rows of the legacy domain table
MaxGoto == 2        \* recipients joined into one legacy goto field

(***************************************************************************)
(* Strings.                                                                *)
(***************************************************************************)
None == <<"None">>          \* Python's None; no string holds this token

Range(s) == {s[i] : i \in DOMAIN s}

RECURSIVE split(_, _)
\* str.split(sep): the segments between the separators, at least one
split(s, sep) ==
    IF sep \notin Range(s) THEN <<s>>
    ELSE LET i == CHOOSE k \in DOMAIN s :
                      s[k] = sep /\ \A j \in 1..(k-1) : s[j] # sep
         IN  <<SubSeq(s, 1, i - 1)>> \o split(SubSeq(s, i + 1, Len(s)), sep)

RECURSIVE join(_, _)
\* sep.join(parts)
join(parts, sep) ==
    IF parts = <<>> THEN <<>>
    ELSE IF Len(parts) = 1 THEN parts[1]
    ELSE parts[1] \o <<sep>> \o join(Tail(parts), sep)

\* str.partition(sep): <<head, sep, tail>> around the first separator
partition(s, sep) ==
    IF sep \notin Range(s) THEN <<s, <<>>, <<>>>>
    ELSE LET parts == split(s, sep)
         IN  <<parts[1], <<sep>>, join(Tail(parts), sep)>>

LowerCase == <<"a", "b", "c", "d", "h", "p", "r", "s", "t", "x", "y">>
UpperCase == <<"A", "B", "C", "D", "H", "P", "R", "S", "T", "X", "Y">>

\* the upper-case form of a one-character token
UpperOf(t) ==
    IF \E i \in DOMAIN LowerCase : LowerCase[i] = t
    THEN UpperCase[CHOOSE i \in DOMAIN LowerCase : LowerCase[i] = t]
    ELSE t

\* str.upper()
upper(s) == [i \in DOMAIN s |-> UpperOf(s[i])]

\* modoboa.lib.emailutils.split_mailbox: <<local part, domain>>
split_mailbox(mailbox) ==
    IF "@" \notin Range(mailbox) THEN <<mailbox, None>>
    ELSE LET parts == split(mailbox, "@")
         IN  <<join(SubSeq(parts, 1, Len(parts) - 1), "@"), parts[Len(parts)]>>

\* os.path.join of relative components
path_join(parts) == join(parts, "/")

(***************************************************************************)
(* The destination store: lookups and the steps of the migrators, each a   *)
(* function from the store before the step to the store after it.          *)
(***************************************************************************)
ALL == <<"ALL">>            \* the sentinel domain name

\* domain_get with the filter on the name left out
domain_get_any(d, name) == DOMAIN d.Domain

\* Domain.objects.using(_to) rows with this name
domain_get(d, name) == {i \in DOMAIN d.Domain : d.Domain[i].name = name}

\* User.objects.using(_to) rows with this username
user_get(d, username) == {u \in DOMAIN d.User : d.User[u].username = username}

\* Mailbox.objects.using(_to) rows with user__username = goto
mailbox_get(d, goto) ==
    {m \in DOMAIN d.Mailbox : d.User[d.Mailbox[m].user].username = goto}

\* is_domain_alias with the lookup made on the wrong column
is_domain_alias_by_target(name) ==
    {i \in DOMAIN pf.AliasDomain : pf.AliasDomain[i].target_domain = name}

\* AliasDomain.objects.using(_from) rows with alias_domain = name
is_domain_alias(name) ==
    {i \in DOMAIN pf.AliasDomain : pf.AliasDomain[i].alias_domain = name}

\* _migrate_dates: one ObjectDates row, its creation date the legacy row's
migrate_dates(d, oldobj) ==
    [d EXCEPT !.ObjectDates = Append(@, [creation |-> oldobj.created])]

\* the Domain row _migrate_domain builds from a legacy row
new_domain(old_dom, dates) ==
    [name |-> old_dom.domain, enabled |-> old_dom.active,
     quota |-> old_dom.maxquota, dates |-> dates]

\* _migrate_domain up to newdom.save
save_domain(d, old_dom) ==
    LET d1 == migrate_dates(d, old_dom)
    IN  [d1 EXCEPT !.Domain = Append(@, new_domain(old_dom, Len(d1.ObjectDates)))]

\* new_password without the upper-casing of the scheme
new_password_as_given(scheme, hash) == <<"{">> \o scheme \o <<"}">> \o hash

\* "{%s}%s" % (options["passwords_scheme"].upper(), old_mb.password)
new_password(scheme, hash) == <<"{">> \o upper(scheme) \o <<"}">> \o hash

\* the rename_dir request of one mailbox
rename_dir(d, opts, old_mb, domain) ==
    IF opts.rename_dirs
    THEN [d EXCEPT !.renamed = Append(@,
             [mailbox |-> Len(d.Mailbox),
              oldpath |-> path_join(<<opts.mboxes_path, d.Domain[domain].name,
                                      old_mb.maildir>>)])]
    ELSE d

\* one iteration of the loop of _migrate_mailboxes
migrate_mailbox(d, opts, old_mb, domain) ==
    LET d1 == migrate_dates(d, old_mb)
        new_user ==
            [username |-> old_mb.username,
             first_name |-> partition(old_mb.name, " ")[1],
             last_name |-> partition(old_mb.name, " ")[3],
             email |-> old_mb.username,
             is_active |-> old_mb.active,
             date_joined |-> old_mb.created,
             password |-> new_password(opts.passwords_scheme, old_mb.password),
             dates |-> Len(d1.ObjectDates),
             is_superuser |-> FALSE,
             groups |-> {"SimpleUsers"}]
        d2 == [d1 EXCEPT !.User = Append(@, new_user)]
        d3 == migrate_dates(d2, old_mb)
        new_mb ==
            [user |-> Len(d2.User),
             address |-> old_mb.local_part,
             domain |-> domain,
             dates |-> Len(d3.ObjectDates),
             quota |-> old_mb.quota \div 1024000]
        d4 == [d3 EXCEPT !.Mailbox = Append(@, new_mb)]
    IN  rename_dir(d4, opts, old_mb, domain)

RECURSIVE intmboxes(_, _)
\* the Mailbox rows found for the recipients, in the order of the list
intmboxes(d, gotos) ==
    IF gotos = <<>> THEN <<>>
    ELSE LET mb == mailbox_get(d, Head(gotos))
         IN  (IF mb = {} THEN <<>> ELSE <<CHOOSE m \in mb : TRUE>>)
             \o intmboxes(d, Tail(gotos))

\* extmboxes keeping every recipient, found or not
extmboxes_all(d, gotos) == gotos

RECURSIVE extmboxes(_, _)
\* the recipients no Mailbox row is found for, in the order of the list
extmboxes(d, gotos) ==
    IF gotos = <<>> THEN <<>>
    ELSE (IF mailbox_get(d, Head(gotos)) = {} THEN <<Head(gotos)>> ELSE <<>>)
         \o extmboxes(d, Tail(gotos))

\* alias_skipped without the test of the address against the recipients
alias_skipped_no_local_part(old_al) ==
    LET sp == split_mailbox(old_al.address)
    IN  /\ (sp[1] = None \/ Len(sp[1]) = 0)
        /\ (sp[2] = None \/ Len(sp[2]) = 0)

\* whether the loop of _migrate_mailbox_aliases passes over the row
alias_skipped(old_al) ==
    LET sp == split_mailbox(old_al.address)
    IN  \/ old_al.address = old_al.goto
        \/ /\ (sp[1] = None \/ Len(sp[1]) = 0)
           /\ (sp[2] = None \/ Len(sp[2]) = 0)

\* one iteration of the loop of _migrate_mailbox_aliases
migrate_mailbox_alias(d, old_al, domain) ==
    IF alias_skipped(old_al) THEN d
    ELSE LET sp == split_mailbox(old_al.address)
             gotos == split(old_al.goto, ",")
             d1 == migrate_dates(d, old_al)
             new_al ==
                 [address |-> IF sp[1] = None \/ Len(sp[1]) = 0
                              THEN <<"*">> ELSE sp[1],
                  domain |-> domain,
                  enabled |-> old_al.active,
                  int_rcpts |-> intmboxes(d, gotos),
                  ext_rcpts |-> extmboxes(d, gotos),
                  dates |-> Len(d1.ObjectDates)]
         IN  [d1 EXCEPT !.Alias = Append(@, new_al)]

\* one iteration of the loop of _migrate_domain_aliases
migrate_domain_alias(d, old_da) ==
    LET target_domain == domain_get(d, old_da.target_domain)
    IN  IF target_domain = {} THEN d
        ELSE LET d1 == migrate_dates(d, old_da)
                 new_da ==
                     [name |-> old_da.alias_domain,
                      target |-> CHOOSE t \in target_domain : TRUE,
                      enabled |-> old_da.active,
                      dates |-> Len(d1.ObjectDates)]
             IN  [d1 EXCEPT !.DomainAlias = Append(@, new_da)]

\* DomainAdmins.objects.using(_from) rows of the query of _migrate_admins
creds_get(username, domname) ==
    {i \in DOMAIN pf.DomainAdmins :
        /\ pf.DomainAdmins[i].username = username
        /\ (pf.DomainAdmins[i].domain = ALL \/ pf.DomainAdmins[i].domain = domname)}

\* the User row _migrate_admins creates when none has the username
new_admin_user(old_admin) ==
    [username |-> old_admin.username,
     first_name |-> <<>>,
     last_name |-> <<>>,
     email |-> old_admin.username,
     is_active |-> old_admin.active,
     date_joined |-> 0,
     password |-> old_admin.password,
     dates |-> 0,
     is_superuser |-> FALSE,
     groups |-> {}]

\* admin_user without the lookup of an existing User
admin_user_always_new(d, old_admin) ==
    [d EXCEPT !.User = Append(@, new_admin_user(old_admin))]

\* the User row the admin is migrated to, after the lookup or the creation
admin_user(d, old_admin) ==
    IF user_get(d, old_admin.username) = {}
    THEN [d EXCEPT !.User = Append(@, new_admin_user(old_admin))]
    ELSE d

\* migrate_admin registering a scoped admin with every target Domain
migrate_admin_every_domain(d, old_admin) ==
    LET domname == split_mailbox(old_admin.username)[2]
        creds == creds_get(old_admin.username, domname)
        domain == domain_get(d, domname)
    IN  IF creds = {} THEN d
        ELSE IF domain = {} THEN d
        ELSE LET d1 == admin_user(d, old_admin)
                 user == CHOOSE u \in user_get(d1, old_admin.username) : TRUE
                 cred == pf.DomainAdmins[CHOOSE c \in creds : TRUE]
             IN  IF cred.domain = ALL
                 THEN [d1 EXCEPT !.User[user].date_joined = old_admin.modified,
                                 !.User[user].is_superuser = TRUE]
                 ELSE [d1 EXCEPT !.User[user].date_joined = old_admin.modified,
                                 !.User[user].groups = @ \cup {"DomainAdmins"},
                                 !.ObjectAccess = @ \cup
                                     {[user |-> user, domain |-> t] :
                                         t \in DOMAIN d1.Domain}]

\* one iteration of the loop of _migrate_admins
migrate_admin(d, old_admin) ==
    LET domname == split_mailbox(old_admin.username)[2]
        creds == creds_get(old_admin.username, domname)
        domain == domain_get(d, domname)
    IN  IF creds = {} THEN d
        ELSE IF domain = {} THEN d
        ELSE LET d1 == admin_user(d, old_admin)
                 user == CHOOSE u \in user_get(d1, old_admin.username) : TRUE
                 cred == pf.DomainAdmins[CHOOSE c \in creds : TRUE]
             IN  IF cred.domain = ALL
                 THEN [d1 EXCEPT !.User[user].date_joined = old_admin.modified,
                                 !.User[user].is_superuser = TRUE]
                 ELSE [d1 EXCEPT !.User[user].date_joined = old_admin.modified,
                                 !.User[user].groups = @ \cup {"DomainAdmins"},
                                 !.ObjectAccess = @ \cup
                                     {[user |-> user,
                                       domain |-> CHOOSE t \in domain : TRUE]}]

RECURSIVE migrate_admins_all(_, _)
\* a whole invocation of _migrate_admins over the rows given
migrate_admins_all(d, admins) ==
    IF admins = <<>> THEN d
    ELSE migrate_admins_all(migrate_admin(d, Head(admins)), Tail(admins))

(***************************************************************************)
(* Legacy stores and option dictionaries the runs start from.              *)
(***************************************************************************)
D1 == <<"d1">>
D2 == <<"d2">>
D3 == <<"d3">>

addr(local, dom) == local \o <<"@">> \o dom

A_D1 == addr(<<"a">>, D1)
A_D2 == addr(<<"a">>, D2)
R_D2 == addr(<<"r">>, D2)
S_D3 == addr(<<"s">>, D3)
X_EXT == addr(<<"x">>, <<"ext">>)
INFO_D1 == addr(<<"info">>, D1)

\* the sequences of at most n distinct elements of S
DistinctSeqs(S, n) ==
    {s \in UNION {[1..k -> S] : k \in 0..n} :
        \A i, j \in DOMAIN s : i # j => s[i] # s[j]}

\* the sequences of at most n elements of S
SeqsUpTo(S, n) == UNION {[1..k -> S] : k \in 0..n}

RECURSIVE Sub(_, _, _)
\* the rows of seq whose index is in I, in the order of seq, from index k on
Sub(seq, I, k) ==
    IF k > Len(seq) THEN <<>>
    ELSE (IF k \in I THEN <<seq[k]>> ELSE <<>>) \o Sub(seq, I, k + 1)

SubSeqs(seq) == {Sub(seq, I, 1) : I \in SUBSET DOMAIN seq}

Stamp(name) ==
    CASE name = ALL -> 10 [] name = D1 -> 11 [] name = D2 -> 12 [] OTHER -> 13

PfDomain(name, active, maxquota) ==
    [domain |-> name, active |-> active, maxquota |-> maxquota,
     created |-> Stamp(name)]

PfAliasDomain(alias, target, active) ==
    [alias_domain |-> alias, target_domain |-> target, active |-> active,
     created |-> 20 + Stamp(alias)]

PfMailbox(local, dom, stamp) ==
    [username |-> addr(local, dom),
     name |-> <<"N">> \o local \o <<" ", "S", " ", "T">>,
     password |-> <<"$", "1", "$", "h">> \o local,
     local_part |-> local,
     domain |-> dom,
     maildir |-> addr(local, dom) \o <<"/">>,
     quota |-> 1024000 * stamp + 5,
     active |-> (local = <<"a">>),
     created |-> stamp]

PfAlias(address, goto, dom, stamp) ==
    [address |-> address, goto |-> goto, domain |-> dom,
     active |-> (dom = D1), created |-> stamp]

PfAdmin(username, stamp) ==
    [username |-> username, password |-> <<"$", "1", "$", "p">>,
     active |-> TRUE, modified |-> stamp]

PfDomainAdmins(username, doms) ==
    {[username |-> username, domain |-> d] : d \in doms}

RECURSIVE SetToSeq(_)
SetToSeq(S) ==
    IF S = {} THEN <<>>
    ELSE LET x == CHOOSE y \in S : TRUE IN <<x>> \o SetToSeq(S \ {x})

DomainAttrs == {[active |-> TRUE, maxquota |-> 500],
                [active |-> FALSE, maxquota |-> 0]}

DomainRows(names, attr) ==
    [i \in DOMAIN names |->
        IF names[i] \in DOMAIN attr
        THEN PfDomain(names[i], attr[names[i]].active, attr[names[i]].maxquota)
        ELSE PfDomain(names[i], TRUE, 100)]

PlainDomains(names) == DomainRows(names, [n \in {} |-> 0])

AliasDomainRows ==
    <<PfAliasDomain(D2, D1, TRUE), PfAliasDomain(D1, D2, FALSE),
      PfAliasDomain(D3, D1, TRUE)>>

AllMailboxes ==
    <<PfMailbox(<<"a">>, D1, 31), PfMailbox(<<"b">>, D1, 32),
      PfMailbox(<<"a">>, D2, 33)>>

SelfAlias == PfAlias(A_D1, A_D1, D1, 41)

BaseAliases ==
    <<SelfAlias,
      PfAlias(INFO_D1, join(<<A_D1, X_EXT>>, ","), D1, 42),
      PfAlias(addr(<<>>, D2), A_D1, D2, 43)>>

BaseAdmins == <<PfAdmin(A_D1, 51), PfAdmin(R_D2, 52)>>

BaseDomainAdmins ==
    SetToSeq(PfDomainAdmins(A_D1, {D1, D2}) \cup PfDomainAdmins(R_D2, {ALL}))

DefaultOptions ==
    [rename_dirs |-> FALSE, mboxes_path |-> None,
     passwords_scheme |-> <<"c", "r", "y", "p", "t">>]

\* the store with the rows that name no row of its domain table left out:
\* postfixadmin keeps mailboxes, aliases and alias domains inside its domains
WellFormed(st) ==
    LET names == {st.Domain[i].domain : i \in DOMAIN st.Domain}
    IN  [st EXCEPT
            !.Mailbox = SelectSeq(@, LAMBDA r : r.domain \in names),
            !.Alias = SelectSeq(@, LAMBDA r : r.domain \in names),
            !.AliasDomain = SelectSeq(@, LAMBDA r : r.alias_domain \in names
                                                   /\ r.target_domain \in names)]

\* family: the legacy domain and alias-domain tables vary
DomainStores ==
    {WellFormed([Domain |-> DomainRows(names, attr),
      AliasDomain |-> ad,
      Mailbox |-> AllMailboxes,
      Alias |-> BaseAliases,
      Admin |-> BaseAdmins,
      DomainAdmins |-> BaseDomainAdmins]) :
        names \in DistinctSeqs({ALL, D1, D2, D3}, MaxPfDomains),
        attr \in [{D1, D2} -> DomainAttrs],
        ad \in SubSeqs(AliasDomainRows)}

\* family: the legacy mailbox and alias tables vary
Rcpts == {A_D1, A_D2, X_EXT, <<>>}

AliasAddresses ==
    {<<INFO_D1, D1>>, <<A_D1, D1>>, <<addr(<<>>, D2), D2>>, <<<<"@">>, D1>>}

AliasStores ==
    {WellFormed([Domain |-> PlainDomains(names),
      AliasDomain |-> <<>>,
      Mailbox |-> mbs,
      Alias |-> (IF aa[1] = SelfAlias.address THEN <<>> ELSE <<SelfAlias>>)
                \o <<PfAlias(aa[1], join(rcpts, ","), aa[2], 42)>>,
      Admin |-> BaseAdmins,
      DomainAdmins |-> BaseDomainAdmins]) :
        names \in {<<D1, D2>>, <<D2, D1>>},
        mbs \in SubSeqs(AllMailboxes),
        aa \in AliasAddresses,
        rcpts \in SeqsUpTo(Rcpts, MaxGoto)}

\* family: the legacy admin and domain_admins tables vary
AdminCreds ==
    [a_d1 : {{}, {ALL}, {D1}, {D2}, {D1, D2}},
     r_d2 : {{}, {ALL}, {D2}, {D1}},
     root : {{}, {ALL}, {D1}},
     s_d3 : {{ALL}, {D3}}]

AdminStores ==
    {WellFormed([Domain |-> PlainDomains(names),
      AliasDomain |-> ad,
      Mailbox |-> AllMailboxes,
      Alias |-> <<SelfAlias>>,
      Admin |-> admins,
      DomainAdmins |->
          SetToSeq(PfDomainAdmins(A_D1, c.a_d1) \cup PfDomainAdmins(R_D2, c.r_d2)
                   \cup PfDomainAdmins(<<"root">>, c.root)
                   \cup PfDomainAdmins(S_D3, c.s_d3))]) :
        names \in {<<D1, D2>>, <<D2, D1>>, <<ALL, D1>>, <<ALL>>},
        ad \in {<<>>, SubSeq(AliasDomainRows, 1, 1), SubSeq(AliasDomainRows, 1, 2)},
        admins \in {<<PfAdmin(A_D1, 51), PfAdmin(R_D2, 52),
                       PfAdmin(<<"root">>, 53), PfAdmin(S_D3, 54)>>},
        c \in AdminCreds}

BaseStores ==
    {WellFormed([Domain |-> PlainDomains(names),
      AliasDomain |-> ad,
      Mailbox |-> AllMailboxes,
      Alias |-> BaseAliases,
      Admin |-> BaseAdmins,
      DomainAdmins |-> BaseDomainAdmins]) :
        names \in {<<D1, D2>>, <<ALL, D2, D1>>, <<>>},
        ad \in {<<>>, SubSeq(AliasDomainRows, 1, 1)}}

Schemes == {<<"c", "r", "y", "p", "t">>, <<"M", "d", "5">>, <<>>}

AllOptions ==
    [rename_dirs : BOOLEAN, mboxes_path : {None, <<"/srv", "/", "vmail">>},
     passwords_scheme : Schemes]

\* the destination store before the run: the creator account alone
EmptyDb ==
    [Domain |-> <<>>, DomainAlias |-> <<>>,
     User |-> <<[username |-> <<"admin">>, first_name |-> <<>>,
                 last_name |-> <<>>, email |-> <<>>, is_active |-> TRUE,
                 date_joined |-> 0, password |-> <<"{", "C", "}", "x">>,
                 dates |-> 0, is_superuser |-> TRUE, groups |-> {}]>>,
     Mailbox |-> <<>>, Alias |-> <<>>, ObjectDates |-> <<>>,
     ObjectAccess |-> {}, renamed |-> <<>>]

InitWith(stores, opts) ==
    /\ pf \in stores
    /\ options \in opts
    /\ db = EmptyDb
    /\ ref = EmptyDb
    /\ pc = "handle"
    /\ pf_i = 1
    /\ newdom = 0
    /\ todo = <<>>
    /\ exit_status = -1

Init ==
    \/ InitWith(DomainStores \cup AliasStores \cup AdminStores, {DefaultOptions})
    \/ InitWith(BaseStores, AllOptions)

InitOptions == InitWith(BaseStores, AllOptions)

(***************************************************************************)
(* The command.                                                            *)
(***************************************************************************)
Item(kind, rows) == [i \in DOMAIN rows |-> [kind |-> kind, row |-> rows[i]]]

\* domain_todo with the aliases migrated before the mailboxes
domain_todo_aliases_first(name) ==
    Item("alias", SelectSeq(pf.Alias, LAMBDA r : r.domain = name))
    \o Item("mailbox", SelectSeq(pf.Mailbox, LAMBDA r : r.domain = name))
    \o Item("domain_alias",
            SelectSeq(pf.AliasDomain, LAMBDA r : r.target_domain = name))
    \o Item("admin", pf.Admin)

\* the rows the migrators of one domain iterate over, in the order of the
\* calls of _migrate_domain and _do_migration
domain_todo(name) ==
    Item("mailbox", SelectSeq(pf.Mailbox, LAMBDA r : r.domain = name))
    \o Item("alias", SelectSeq(pf.Alias, LAMBDA r : r.domain = name))
    \o Item("domain_alias",
            SelectSeq(pf.AliasDomain, LAMBDA r : r.target_domain = name))
    \o Item("admin", pf.Admin)

\* handle: --rename-dirs without --mboxes-path
handle_exit ==
    /\ pc = "handle"
    /\ options.rename_dirs /\ options.mboxes_path = None
    /\ pc' = "exit"
    /\ exit_status' = 1
    /\ UNCHANGED <<options, pf, db, ref, pf_i, newdom, todo>>

\* handle_run without the test of the options
handle_run_unchecked ==
    /\ pc = "handle"
    /\ pc' = "loop"
    /\ UNCHANGED <<options, pf, db, ref, pf_i, newdom, todo, exit_status>>

\* handle: _do_migration starts
handle_run ==
    /\ pc = "handle"
    /\ ~(options.rename_dirs /\ options.mboxes_path = None)
    /\ pc' = "loop"
    /\ UNCHANGED <<options, pf, db, ref, pf_i, newdom, todo, exit_status>>

AtDomain == pc = "loop" /\ todo = <<>> /\ pf_i <= Len(pf.Domain)

\* _do_migration: the sentinel row is passed over
do_migration_sentinel ==
    /\ AtDomain
    /\ pf.Domain[pf_i].domain = ALL
    /\ pf_i' = pf_i + 1
    /\ UNCHANGED <<options, pf, db, ref, pc, newdom, todo, exit_status>>

\* _do_migration: a row that is an alias domain is passed over
do_migration_alias ==
    /\ AtDomain
    /\ pf.Domain[pf_i].domain # ALL
    /\ is_domain_alias(pf.Domain[pf_i].domain) # {}
    /\ pf_i' = pf_i + 1
    /\ UNCHANGED <<options, pf, db, ref, pc, newdom, todo, exit_status>>

\* _do_migration: _migrate_domain saves the Domain; its migrators and
\* _migrate_admins follow
migrate_domain ==
    /\ AtDomain
    /\ pf.Domain[pf_i].domain # ALL
    /\ is_domain_alias(pf.Domain[pf_i].domain) = {}
    /\ db' = save_domain(db, pf.Domain[pf_i])
    /\ ref' = save_domain(ref, pf.Domain[pf_i])
    /\ newdom' = Len(db.Domain) + 1
    /\ todo' = domain_todo(pf.Domain[pf_i].domain)
    /\ pf_i' = pf_i + 1
    /\ UNCHANGED <<options, pf, pc, exit_status>>

AtItem(kind) == pc = "loop" /\ todo # <<>> /\ Head(todo).kind = kind

\* _migrate_mailboxes: one legacy mailbox
migrate_mailboxes ==
    /\ AtItem("mailbox")
    /\ db' = migrate_mailbox(db, options, Head(todo).row, newdom)
    /\ ref' = migrate_mailbox(ref, options, Head(todo).row, newdom)
    /\ todo' = Tail(todo)
    /\ UNCHANGED <<options, pf, pc, pf_i, newdom, exit_status>>

\* _migrate_mailbox_aliases: one legacy alias
migrate_mailbox_aliases ==
    /\ AtItem("alias")
    /\ db' = migrate_mailbox_alias(db, Head(todo).row, newdom)
    /\ ref' = migrate_mailbox_alias(ref, Head(todo).row, newdom)
    /\ todo' = Tail(todo)
    /\ UNCHANGED <<options, pf, pc, pf_i, newdom, exit_status>>

\* _migrate_domain_aliases: one legacy alias domain
migrate_domain_aliases ==
    /\ AtItem("domain_alias")
    /\ db' = migrate_domain_alias(db, Head(todo).row)
    /\ ref' = migrate_domain_alias(ref, Head(todo).row)
    /\ todo' = Tail(todo)
    /\ UNCHANGED <<options, pf, pc, pf_i, newdom, exit_status>>

\* _migrate_admins: one legacy admin
migrate_admins ==
    /\ AtItem("admin")
    /\ db' = migrate_admin(db, Head(todo).row)
    /\ todo' = Tail(todo)
    /\ UNCHANGED <<options, pf, ref, pc, pf_i, newdom, exit_status>>

\* _do_migration returns, the transaction commits, the command exits
do_migration_end ==
    /\ pc = "loop" /\ todo = <<>> /\ pf_i > Len(pf.Domain)
    /\ pc' = "done"
    /\ exit_status' = 0
    /\ UNCHANGED <<options, pf, db, ref, pf_i, newdom, todo>>

Next ==
    \/ handle_exit
    \/ handle_run
    \/ do_migration_sentinel
    \/ do_migration_alias
    \/ migrate_domain
    \/ migrate_mailboxes
    \/ migrate_mailbox_aliases
    \/ migrate_domain_aliases
    \/ migrate_admins
    \/ do_migration_end

Spec == Init /\ [][Next]_vars

\* the process is scheduled until it exits
SpecOptions == InitOptions /\ [][Next]_vars /\ WF_vars(Next)

(***************************************************************************)
(* Properties.                                                             *)
(***************************************************************************)
Done == pc = "done"

\* the names of the legacy alias domains and of their targets
AliasDomainNames == {pf.AliasDomain[j].alias_domain : j \in DOMAIN pf.AliasDomain}
AliasTargetNames == {pf.AliasDomain[j].target_domain : j \in DOMAIN pf.AliasDomain}

\* the target Domain rows that carry a legacy row over
DomainsOf(old_dom) ==
    {k \in DOMAIN db.Domain : db.Domain[k].name = old_dom.domain}

\* exactly one target Domain carries the legacy row, with its name, active
\* flag and maxquota
MigratedOnce(old_dom) ==
    /\ Cardinality(DomainsOf(old_dom)) = 1
    /\ \A k \in DomainsOf(old_dom) :
          /\ db.Domain[k].enabled = old_dom.active
          /\ db.Domain[k].quota = old_dom.maxquota

\* C1 as stated: after a complete run every legacy domain but "ALL" and the
\* domains registered as the target of an alias domain has exactly one target
\* Domain with its name, active flag and maxquota, and the other legacy
\* domains have none.
C1_AsStated ==
    Done =>
        \A i \in DOMAIN pf.Domain :
            IF pf.Domain[i].domain = ALL \/ pf.Domain[i].domain \in AliasTargetNames
            THEN DomainsOf(pf.Domain[i]) = {}
            ELSE MigratedOnce(pf.Domain[i])

\* C1 amended: after a complete run every legacy domain but "ALL" and the
\* domains registered as an alias domain (the alias_domain of a legacy
\* AliasDomain row) has exactly one target Domain with its name, active flag
\* and maxquota, and the other legacy domains have none.
C1_DomainsMigrated ==
    Done =>
        \A i \in DOMAIN pf.Domain :
            IF pf.Domain[i].domain = ALL \/ pf.Domain[i].domain \in AliasDomainNames
            THEN DomainsOf(pf.Domain[i]) = {}
            ELSE MigratedOnce(pf.Domain[i])

\* a complete run that passed over an alias domain and migrated its target
C1_Witness ==
    /\ Done
    /\ \E i, j \in DOMAIN pf.Domain :
          /\ pf.Domain[i].domain \in AliasDomainNames
          /\ pf.Domain[j].domain \in AliasTargetNames
          /\ pf.Domain[j].domain \notin AliasDomainNames
          /\ DomainsOf(pf.Domain[j]) # {}
          /\ ~db.Domain[CHOOSE k \in DomainsOf(pf.Domain[j]) : TRUE].enabled

\* the names of the legacy domains _do_migration migrates
MigratedNames ==
    {pf.Domain[i].domain : i \in DOMAIN pf.Domain} \ ({ALL} \cup AliasDomainNames)

\* the scheme tag of the password of a migrated mailbox
SchemeTag ==
    CASE options.passwords_scheme = <<"c", "r", "y", "p", "t">>
             -> <<"{", "C", "R", "Y", "P", "T", "}">>
      [] options.passwords_scheme = <<"M", "d", "5">>
             -> <<"{", "M", "D", "5", "}">>
      [] OTHER -> <<"{", "}">>

\* exactly one User and one Mailbox linked to it carry the legacy mailbox,
\* the password the tagged legacy hash
MailboxMigratedOnce(old_mb) ==
    LET users == {u \in DOMAIN db.User : db.User[u].username = old_mb.username}
    IN  /\ Cardinality(users) = 1
        /\ Cardinality({m \in DOMAIN db.Mailbox : db.Mailbox[m].user \in users}) = 1
        /\ \A u \in users : db.User[u].password = SchemeTag \o old_mb.password

\* C2 as stated: after a complete run every legacy mailbox has exactly one
\* target User and one target Mailbox linked to it, the User's password
\* "{" + upper-cased scheme + "}" + the legacy hash.
C2_AsStated ==
    Done => \A i \in DOMAIN pf.Mailbox : MailboxMigratedOnce(pf.Mailbox[i])

\* C2 amended: after a complete run every legacy mailbox whose domain is a
\* migrated legacy domain (a row of the legacy domain table that is neither
\* "ALL" nor an alias domain) has exactly one target User and one target
\* Mailbox linked to it, the User's password "{" + upper-cased scheme + "}" +
\* the legacy hash, also after every run of the administrator migrator.
C2_MailboxesMigrated ==
    Done =>
        \A i \in DOMAIN pf.Mailbox :
            pf.Mailbox[i].domain \in MigratedNames
                => MailboxMigratedOnce(pf.Mailbox[i])

\* a complete run in which the administrator migrator made a migrated
\* mailbox's User a superuser, under a scheme given in lower case
C2_Witness ==
    /\ Done
    /\ options.passwords_scheme = <<"c", "r", "y", "p", "t">>
    /\ \E i \in DOMAIN pf.Mailbox, u \in DOMAIN db.User :
          /\ db.User[u].username = pf.Mailbox[i].username
          /\ db.User[u].is_superuser

\* how many times x occurs in the sequence
Count(seq, x) == Cardinality({i \in DOMAIN seq : seq[i] = x})

\* the usernames of the internal recipients of a target Alias, in order
IntNames(d, al) ==
    [i \in DOMAIN al.int_rcpts |-> d.User[d.Mailbox[al.int_rcpts[i]].user].username]

\* whether a target Mailbox of the store has this username
Resolvable(d, r) ==
    \E m \in DOMAIN d.Mailbox : d.User[d.Mailbox[m].user].username = r

\* the two recipient lists of the Alias split the recipient list gotos by
\* the Mailboxes of store d
Partitioned(d, al, gotos) ==
    /\ Len(al.int_rcpts) + Len(al.ext_rcpts) = Len(gotos)
    /\ Range(IntNames(d, al)) \cup Range(al.ext_rcpts) = Range(gotos)
    /\ Range(IntNames(d, al)) \cap Range(al.ext_rcpts) = {}
    /\ \A r \in Range(gotos) :
          IF Resolvable(d, r)
          THEN /\ Count(IntNames(d, al), r) = Count(gotos, r)
               /\ Count(al.ext_rcpts, r) = 0
          ELSE /\ Count(al.ext_rcpts, r) = Count(gotos, r)
               /\ Count(IntNames(d, al), r) = 0

\* C3: every target Alias _migrate_mailbox_aliases creates holds, as
\* internal recipients, the recipients of the legacy comma-separated list
\* that resolve to a target Mailbox existing at that moment and, as external
\* recipients, all the others: no recipient is in both, lost or duplicated.
C3_RecipientsPartitioned ==
    [][\A k \in (DOMAIN db'.Alias) \ (DOMAIN db.Alias) :
          /\ AtItem("alias")
          /\ Partitioned(db, db'.Alias[k], split(Head(todo).row.goto, ","))]_vars

\* an Alias created with an internal and an external recipient
C3_Witness ==
    \E k \in DOMAIN db.Alias :
        /\ Len(db.Alias[k].int_rcpts) = 1
        /\ Len(db.Alias[k].ext_rcpts) = 1
        /\ db.Alias[k].ext_rcpts[1] # <<>>

\* the legacy aliases whose address is their whole recipient field
SelfAliases == {i \in DOMAIN pf.Alias : pf.Alias[i].address = pf.Alias[i].goto}

\* C7: a legacy alias whose address equals its goto field yields no target
\* Alias and no dates record, and the loop goes on with the next row.
C7_SelfAliasSkipped ==
    /\ [](\A i \in SelfAliases :
            \A k \in DOMAIN db.ObjectDates :
                db.ObjectDates[k].creation # pf.Alias[i].created)
    /\ [][(AtItem("alias") /\ Head(todo).row.address = Head(todo).row.goto)
            => /\ db'.Alias = db.Alias
               /\ db'.ObjectDates = db.ObjectDates
               /\ todo' = Tail(todo)
               /\ pc' = "loop"]_vars

\* the loop has passed a self-referencing alias of a migrated domain and
\* created the Alias of the row after it
C7_Witness ==
    /\ \E i \in SelfAliases : i < Len(pf.Alias)
          /\ pf.Alias[i].domain = pf.Alias[i + 1].domain
          /\ \E k \in DOMAIN db.ObjectDates :
                db.ObjectDates[k].creation = pf.Alias[i + 1].created

\* the domain part of an admin's username, None without one
DomainPart(username) ==
    IF \E i \in DOMAIN username : username[i] = "@"
    THEN SubSeq(username,
                1 + CHOOSE i \in DOMAIN username :
                        username[i] = "@"
                        /\ \A j \in (i + 1)..Len(username) : username[j] # "@",
                Len(username))
    ELSE None

\* the scopes of the legacy domain_admins rows of a username
Creds(username) ==
    {pf.DomainAdmins[i].domain :
        i \in {j \in DOMAIN pf.DomainAdmins : pf.DomainAdmins[j].username = username}}

UsersOf(username) == {u \in DOMAIN db.User : db.User[u].username = username}

\* the names of the target Domains the Users of a username are admins of
RegisteredFor(username) ==
    {db.Domain[x.domain].name :
        x \in {y \in db.ObjectAccess : y.user \in UsersOf(username)}}

TargetNames == {db.Domain[k].name : k \in DOMAIN db.Domain}

\* C4: after a complete run (here one that migrated a domain, so that
\* _migrate_admins was invoked) every legacy admin with a domain_admins row
\* scoped to "ALL" is a target User with is_superuser set, outside the
\* DomainAdmins group and admin of no specific Domain.
C4_AsStated ==
    (Done /\ db.Domain # <<>>) =>
        \A i \in DOMAIN pf.Admin :
            ALL \in Creds(pf.Admin[i].username) =>
                /\ UsersOf(pf.Admin[i].username) # {}
                /\ \A u \in UsersOf(pf.Admin[i].username) :
                      /\ db.User[u].is_superuser
                      /\ "DomainAdmins" \notin db.User[u].groups
                /\ RegisteredFor(pf.Admin[i].username) = {}

C6_DomainSavedFirst ==
    /\ [](/\ \A k \in DOMAIN db.Mailbox : db.Mailbox[k].domain \in DOMAIN db.Domain
          /\ \A k \in DOMAIN db.Alias : db.Alias[k].domain \in DOMAIN db.Domain
          /\ \A k \in DOMAIN db.DomainAlias :
                /\ db.DomainAlias[k].target \in DOMAIN db.Domain
                /\ \E j \in DOMAIN pf.AliasDomain :
                      /\ pf.AliasDomain[j].alias_domain = db.DomainAlias[k].name
                      /\ pf.AliasDomain[j].target_domain
                             = db.Domain[db.DomainAlias[k].target].name)
    /\ [][/\ \A k \in (DOMAIN db'.Mailbox) \ (DOMAIN db.Mailbox) :
                db'.Mailbox[k].domain \in DOMAIN db.Domain
          /\ \A k \in (DOMAIN db'.Alias) \ (DOMAIN db.Alias) :
                db'.Alias[k].domain \in DOMAIN db.Domain
          /\ \A k \in (DOMAIN db'.DomainAlias) \ (DOMAIN db.DomainAlias) :
                db'.DomainAlias[k].target \in DOMAIN db.Domain
          /\ (AtItem("domain_alias")
              /\ Head(todo).row.target_domain \notin TargetNames) => db' = db]_vars

\* a DomainAlias written for the second of two target Domains
C6_Witness ==
    \E k \in DOMAIN db.DomainAlias :
        /\ db.DomainAlias[k].target = 2
        /\ db.Mailbox # <<>>
        /\ db.Alias # <<>>

BadOptions == options.rename_dirs /\ options.mboxes_path = None

\* C8: with rename_dirs set and mboxes_path unset the command exits with
\* status 1 before _do_migration starts, nothing written and no directory
\* renamed; with any other options the run completes; and a directory rename
\* is requested only when rename_dirs is set.
C8_ExitBehaviour ==
    /\ [](BadOptions => /\ pc \in {"handle", "exit"}
                        /\ db = EmptyDb
                        /\ (pc = "exit" => exit_status = 1))
    /\ (BadOptions => <>(pc = "exit"))
    /\ (~BadOptions => <>(Done /\ exit_status = 0))
    /\ [](db.renamed # <<>> => options.rename_dirs)
    /\ [](pc = "exit" => BadOptions)

\* the command has refused to run
C8_Witness == pc = "exit" /\ exit_status = 1 /\ pf.Domain # <<>>

\* the index of a legacy domain in the order _do_migration enumerates
Pos(name) == CHOOSE i \in DOMAIN pf.Domain : pf.Domain[i].domain = name

\* the legacy alias a target Alias was created from
OldAlias(al) ==
    pf.Alias[CHOOSE i \in DOMAIN pf.Alias :
                 pf.Alias[i].created = db.ObjectDates[al.dates].creation]

\* the legacy mailboxes of migrated domains with this username
OldMailboxes(r) ==
    {j \in DOMAIN pf.Mailbox :
        pf.Mailbox[j].username = r /\ pf.Mailbox[j].domain \in MigratedNames}

\* C9: a recipient of an alias is internal exactly when its mailbox is of
\* the alias's domain or of a domain enumerated before it; a recipient whose
\* mailbox is of a domain enumerated later is an external string, though its
\* Mailbox exists at the end of the run; and no Alias is changed once written.
C9_ClassifiedWhenProcessed ==
    /\ [](\A k \in DOMAIN db.Alias :
            \A r \in Range(split(OldAlias(db.Alias[k]).goto, ",")) :
                IF \E j \in OldMailboxes(r) :
                       Pos(pf.Mailbox[j].domain) <= Pos(db.Domain[db.Alias[k].domain].name)
                THEN /\ r \in Range(IntNames(db, db.Alias[k]))
                     /\ r \notin Range(db.Alias[k].ext_rcpts)
                ELSE /\ r \in Range(db.Alias[k].ext_rcpts)
                     /\ r \notin Range(IntNames(db, db.Alias[k]))
                     /\ (Done /\ OldMailboxes(r) # {} => Resolvable(db, r)))
    /\ [][\A k \in DOMAIN db.Alias :
            k \in DOMAIN db'.Alias /\ db'.Alias[k] = db.Alias[k]]_vars

\* a complete run that left, as an external string, a recipient whose
\* Mailbox exists, next to an internal recipient
C9_Witness ==
    /\ Done
    /\ \E k \in DOMAIN db.Alias :
          /\ \E i \in DOMAIN db.Alias[k].ext_rcpts :
                Resolvable(db, db.Alias[k].ext_rcpts[i])
          /\ db.Alias[k].int_rcpts # <<>>

\* what C10 compares of a destination store: the Users but for their primary
\* keys, and the admin registrations by username and Domain name
AdminView(d) ==
    [users |-> Range(d.User),
     access |-> {<<d.User[x.user].username, d.Domain[x.domain].name>> :
                    x \in d.ObjectAccess}]

\* C10: when a domain was migrated, the Users (superuser flags and groups
\* included) and the admin registrations at the end of the run are those a
\* single _migrate_admins invocation after the domain loop produces; and a
\* legacy admin never has more than one target User.
C10_AdminsIdempotent ==
    /\ (Done /\ db.Domain # <<>>) =>
           AdminView(db) = AdminView(migrate_admins_all(ref, pf.Admin))
    /\ \A i \in DOMAIN pf.Admin : Cardinality(UsersOf(pf.Admin[i].username)) <= 1

\* a complete run in which _migrate_admins ran twice over an admin it had
\* created a User for, and over one it made an admin of a Domain
C10_Witness ==
    /\ Done
    /\ Len(db.Domain) = 2
    /\ db.ObjectAccess # {}
    /\ \E u \in DOMAIN db.User :
          /\ db.User[u].dates = 0
          /\ db.User[u].is_superuser
          /\ u > 1
          /\ \E m \in DOMAIN db.Mailbox : db.Mailbox[m].user > u

====
